---- MODULE Spec2Model ----
(***************************************************************************)
(* The in-process event broker of github.com/reverted/broker (the wildcard *)
(* variant): Subscribe, Publish, the per-delivery goroutines and Shutdown, *)
(* at the granularity of their synchronisation operations (atomic flag,    *)
(* RWMutex, WaitGroup, channel send / receive / close).                    *)
(*                                                                         *)
(* A Go panic (send on closed channel, close of closed channel) ends the   *)
(* process: it is recorded in `fault` and no action is enabled afterwards. *)
(***************************************************************************)
EXTENDS Integers, Sequences, FiniteSets, TLC

\* ---- bounds of the model ----
NumPublish   == 2          \* Publish calls made over the broker's life
NumSubscribe == 2          \* Subscribe calls (each makes one channel)
NumShutdown  == 2          \* Shutdown calls
MaxCalls     == 4          \* calls of all three kinds together
MaxForward   == 3          \* calls of the function CloudEventForwarder returns

\* ---- program constants ----
QueueCap == 10             \* make(chan cloudevents.Event, 10)
Wildcard == "*"            \* eventType == "*"
Backoff  == <<0, 1, 2, 5, 10, 30, 60>>  \* NewNats: seconds slept before each attempt

PubCalls == 1..NumPublish
SubCalls == 1..NumSubscribe
SdCalls  == 1..NumShutdown

EventTypes == {"a", "b"}                \* types of published events
SubKeys    == EventTypes \cup {Wildcard} \* arguments of Subscribe

NoEvent == [id |-> 0, type |-> "-"]
NoOne   == <<>>
NoError == "nil"
ConnectErrors == {"timeout", "no servers"}   \* errors of nats.Connect
EncodeErrors  == {"no encoder"}              \* errors of nats.NewEncodedConn

VARIABLES
    subscribers,     \* eb.subscribers: event type -> sequence of channels
    allSubscribers,  \* eb.allSubscribers: sequence of channels
    muWriter,        \* eb.mu: the caller inside Lock() .. Unlock(), or NoOne
    muReaders,       \* eb.mu: the Publish calls between RLock() and RUnlock()
    wg,              \* eb.wg: the WaitGroup counter
    shuttingDown,    \* eb.shuttingDown
    chans,           \* the channels made by Subscribe, by Subscribe call
    task,            \* the delivery goroutines: task[p][c]
    received,        \* what the consumer of each channel has received so far
    eos,             \* the consumer of the channel has seen it closed and empty
    fault,           \* the panic that ended the process, or "none"
    pubPc, pubEvent, pubTargets, pubIdx,   \* each Publish call
    subPc, subKey,                         \* each Subscribe call
    sdPc, sdTodo,                          \* each Shutdown call
    pubRetBefore,    \* history: the Publish calls that had returned when p started
    pubSentBefore,   \* history: the deliveries <<q, c>> already enqueued when p started
    pubRegBefore,    \* history: the channels matching p's event registered when p started
    pubAfterSd,      \* history: some Shutdown had returned when p started
    subAfterSd,      \* history: some Shutdown had returned when c started
    subPubRet,       \* history: the Publish calls that had returned when c started
    sdPubRet,        \* history: the Publish calls that had returned when s started
    cbPending,       \* SubscribeFunc's loop has received an event and not yet called f
    invoked,         \* the events f has been called with, per subscription
    fwdPc,           \* the function CloudEventForwarder returned: "idle" or "called"
    fwdCalled,       \* the events that function has been called with
    fwdSent,         \* the calls send has received: context and event
    natsPc,          \* NewNats: "sleep", "connect", "check", "encode", "fatal", "returned"
    natsIdx,         \* NewNats: the position of the loop in the backoff list
    natsErr,         \* NewNats: err
    natsConn,        \* NewNats: nc is a connection (not nil)
    natsSlept,       \* the seconds NewNats has slept, call by call of time.Sleep
    natsTried        \* the results of the calls of nats.Connect, in order

brokerVars == <<subscribers, allSubscribers, muWriter, muReaders, wg, shuttingDown>>
chanVars   == <<chans, task, received, eos, fault>>
pubVars    == <<pubPc, pubEvent, pubTargets, pubIdx>>
subVars    == <<subPc, subKey>>
sdVars     == <<sdPc, sdTodo>>
histVars   == <<pubRetBefore, pubSentBefore, pubRegBefore, pubAfterSd, subAfterSd, subPubRet,
               sdPubRet>>
funcVars   == <<cbPending, invoked>>
fwdVars    == <<fwdPc, fwdCalled, fwdSent>>
natsVars   == <<natsPc, natsIdx, natsErr, natsConn, natsSlept, natsTried>>
vars == <<brokerVars, chanVars, pubVars, subVars, sdVars, histVars, funcVars, fwdVars,
          natsVars>>

\* ---- helpers ----
Range(s) == {s[i] : i \in DOMAIN s}

\* the channels in the registry
Registered == UNION {Range(subscribers[k]) : k \in DOMAIN subscribers}
                 \cup Range(allSubscribers)

\* Targets without the lookup by type: every channel of the map, then the
\* wildcard channels
TargetsOfAnyType(e) ==
    subscribers["a"] \o subscribers["b"] \o allSubscribers

\* eb.subscribers[event.Type()] followed by eb.allSubscribers: the channels the
\* two loops of Publish range over
Targets(e) == subscribers[e.type] \o allSubscribers

\* a channel not made yet
NoChan == [made |-> FALSE, cap |-> 0, buf |-> <<>>, closed |-> FALSE]

\* NewBroker()
Init ==
    /\ subscribers = [k \in SubKeys |-> <<>>]
    /\ allSubscribers = <<>>
    /\ muWriter = NoOne
    /\ muReaders = {}
    /\ wg = 0
    /\ shuttingDown = FALSE
    /\ chans = [c \in SubCalls |-> NoChan]
    /\ task = [p \in PubCalls |-> [c \in SubCalls |-> "none"]]
    /\ received = [c \in SubCalls |-> <<>>]
    /\ eos = [c \in SubCalls |-> FALSE]
    /\ fault = "none"
    /\ pubPc = [p \in PubCalls |-> "idle"]
    /\ pubEvent = [p \in PubCalls |-> NoEvent]
    /\ pubTargets = [p \in PubCalls |-> <<>>]
    /\ pubIdx = [p \in PubCalls |-> 0]
    /\ subPc = [c \in SubCalls |-> "idle"]
    /\ subKey = [c \in SubCalls |-> "-"]
    /\ sdPc = [s \in SdCalls |-> "idle"]
    /\ sdTodo = [s \in SdCalls |-> <<>>]
    /\ pubRetBefore = [p \in PubCalls |-> {}]
    /\ pubSentBefore = [p \in PubCalls |-> {}]
    /\ pubRegBefore = [p \in PubCalls |-> {}]
    /\ pubAfterSd = [p \in PubCalls |-> FALSE]
    /\ subAfterSd = [c \in SubCalls |-> FALSE]
    /\ subPubRet = [c \in SubCalls |-> {}]
    /\ sdPubRet = [s \in SdCalls |-> {}]
    /\ cbPending = [c \in SubCalls |-> FALSE]
    /\ invoked = [c \in SubCalls |-> <<>>]
    /\ fwdPc = "idle"
    /\ fwdCalled = <<>>
    /\ fwdSent = <<>>
    /\ natsPc = "sleep"
    /\ natsIdx = 1
    /\ natsErr = NoError
    /\ natsConn = FALSE
    /\ natsSlept = <<>>
    /\ natsTried = <<>>

\* the events of n earlier Publish calls, all of type "a", oldest first
Earlier(n) == [i \in 1..n |-> [id |-> 0 - i, type |-> "a"]]

\* A broker later in its life: Subscribe(k) has returned channel 1, then
\* QueueCap events of type "a" were published and enqueued, their goroutines
\* have finished, and the consumer has received none of them.
InitFull ==
    \E n \in {QueueCap} : \E k \in {"a", Wildcard} :
        /\ subscribers = [x \in SubKeys |-> IF x = k /\ k # Wildcard THEN <<1>> ELSE <<>>]
        /\ allSubscribers = IF k = Wildcard THEN <<1>> ELSE <<>>
        /\ muWriter = NoOne
        /\ muReaders = {}
        /\ wg = 0
        /\ shuttingDown = FALSE
        /\ chans = [c \in SubCalls |->
               IF c = 1 THEN [made |-> TRUE, cap |-> QueueCap, buf |-> Earlier(n),
                              closed |-> FALSE]
                        ELSE NoChan]
        /\ task = [p \in PubCalls |-> [c \in SubCalls |-> "none"]]
        /\ received = [c \in SubCalls |-> <<>>]
        /\ eos = [c \in SubCalls |-> FALSE]
        /\ fault = "none"
        /\ pubPc = [p \in PubCalls |-> "idle"]
        /\ pubEvent = [p \in PubCalls |-> NoEvent]
        /\ pubTargets = [p \in PubCalls |-> <<>>]
        /\ pubIdx = [p \in PubCalls |-> 0]
        /\ subPc = [c \in SubCalls |-> IF c = 1 THEN "done" ELSE "idle"]
        /\ subKey = [c \in SubCalls |-> IF c = 1 THEN k ELSE "-"]
        /\ sdPc = [s \in SdCalls |-> "idle"]
        /\ sdTodo = [s \in SdCalls |-> <<>>]
        /\ pubRetBefore = [p \in PubCalls |-> {}]
        /\ pubSentBefore = [p \in PubCalls |-> {}]
        /\ pubRegBefore = [p \in PubCalls |-> {}]
        /\ pubAfterSd = [p \in PubCalls |-> FALSE]
        /\ subAfterSd = [c \in SubCalls |-> FALSE]
        /\ subPubRet = [c \in SubCalls |-> {}]
        /\ sdPubRet = [s \in SdCalls |-> {}]
        /\ cbPending = [c \in SubCalls |-> FALSE]
        /\ invoked = [c \in SubCalls |-> <<>>]
        /\ fwdPc = "idle"
        /\ fwdCalled = <<>>
        /\ fwdSent = <<>>
        /\ natsPc = "sleep"
        /\ natsIdx = 1
        /\ natsErr = NoError
        /\ natsConn = FALSE
        /\ natsSlept = <<>>
        /\ natsTried = <<>>

Running == fault = "none"

\* the calls made so far; a further call starts while the budget allows
Started == Cardinality({p \in PubCalls : pubPc[p] # "idle"})
             + Cardinality({c \in SubCalls : subPc[c] # "idle"})
             + Cardinality({s \in SdCalls : sdPc[s] # "idle"})
CanStart == Running /\ Started < MaxCalls
SomeShutdownReturned == \E s \in SdCalls : sdPc[s] = "done"

----------------------------------------------------------------------------
\* Subscribe(eventType)

\* SubscribeCheck without the test of the flag: always goes on to register
SubscribeCheckFlagIgnored(c, k) ==
    /\ CanStart
    /\ subPc[c] = "idle"
    /\ \A d \in SubCalls : d < c => subPc[d] # "idle"
    /\ subKey' = [subKey EXCEPT ![c] = k]
    /\ subAfterSd' = [subAfterSd EXCEPT ![c] = SomeShutdownReturned]
    /\ subPubRet' = [subPubRet EXCEPT ![c] = {p \in PubCalls : pubPc[p] = "done"}]
    /\ subPc' = [subPc EXCEPT ![c] = "lock"]
    /\ UNCHANGED <<funcVars, fwdVars, natsVars,
                   brokerVars, chanVars, pubVars, sdVars,
                   pubRetBefore, pubSentBefore, pubRegBefore, pubAfterSd, sdPubRet>>

\* if eb.shuttingDown.Load() { ch := make(chan); close(ch); return ch }
SubscribeCheck(c, k) ==
    /\ CanStart
    /\ subPc[c] = "idle"
    /\ \A d \in SubCalls : d < c => subPc[d] # "idle"
    /\ subKey' = [subKey EXCEPT ![c] = k]
    /\ subAfterSd' = [subAfterSd EXCEPT ![c] = SomeShutdownReturned]
    /\ subPubRet' = [subPubRet EXCEPT ![c] = {p \in PubCalls : pubPc[p] = "done"}]
    /\ IF shuttingDown
          THEN /\ chans' = [chans EXCEPT ![c] =
                     [made |-> TRUE, cap |-> 0, buf |-> <<>>, closed |-> TRUE]]
               /\ subPc' = [subPc EXCEPT ![c] = "done"]
          ELSE /\ subPc' = [subPc EXCEPT ![c] = "lock"]
               /\ UNCHANGED chans
    /\ UNCHANGED <<funcVars, fwdVars, natsVars,
                   brokerVars, task, received, eos, fault, pubVars, sdVars,
                   pubRetBefore, pubSentBefore, pubRegBefore, pubAfterSd, sdPubRet>>

\* eb.mu.Lock(): the writer announces itself; later RLock calls wait for it
SubscribeLock(c) ==
    /\ Running
    /\ subPc[c] = "lock"
    /\ muWriter = NoOne
    /\ muWriter' = <<"Subscribe", c>>
    /\ subPc' = [subPc EXCEPT ![c] = "locking"]
    /\ UNCHANGED <<funcVars, fwdVars, natsVars,
                   subscribers, allSubscribers, muReaders, wg, shuttingDown,
                   chanVars, pubVars, subKey, sdVars, histVars>>

\* SubscribeRegister without the wildcard branch's else: a "*" channel goes
\* into eb.allSubscribers and into eb.subscribers["*"] as well
SubscribeRegisterKeyedToo(c) ==
    /\ Running
    /\ subPc[c] = "locking"
    /\ muWriter = <<"Subscribe", c>>
    /\ muReaders = {}
    /\ chans' = [chans EXCEPT ![c] =
           [made |-> TRUE, cap |-> QueueCap, buf |-> <<>>, closed |-> FALSE]]
    /\ subscribers' = [subscribers EXCEPT ![subKey[c]] = Append(@, c)]
    /\ allSubscribers' = IF subKey[c] = Wildcard THEN Append(allSubscribers, c)
                                                 ELSE allSubscribers
    /\ muWriter' = NoOne
    /\ subPc' = [subPc EXCEPT ![c] = "done"]
    /\ UNCHANGED <<funcVars, fwdVars, natsVars,
                   muReaders, wg, shuttingDown, task, received, eos, fault,
                   pubVars, subKey, sdVars, histVars>>

\* SubscribeRegister with replay: the new channel starts with the events of
\* the Publish calls that have returned and match its key
SubscribeRegisterReplays(c) ==
    /\ Running
    /\ subPc[c] = "locking"
    /\ muWriter = <<"Subscribe", c>>
    /\ muReaders = {}
    /\ chans' = [chans EXCEPT ![c] =
           [made |-> TRUE, cap |-> QueueCap,
            buf |-> SelectSeq([p \in PubCalls |-> pubEvent[p]],
                      LAMBDA e : e.type = subKey[c] \/ (e # NoEvent /\ subKey[c] = Wildcard)),
            closed |-> FALSE]]
    /\ IF subKey[c] = Wildcard
          THEN /\ allSubscribers' = Append(allSubscribers, c)
               /\ UNCHANGED subscribers
          ELSE /\ subscribers' = [subscribers EXCEPT ![subKey[c]] = Append(@, c)]
               /\ UNCHANGED allSubscribers
    /\ muWriter' = NoOne
    /\ subPc' = [subPc EXCEPT ![c] = "done"]
    /\ UNCHANGED <<funcVars, fwdVars, natsVars,
                   muReaders, wg, shuttingDown, task, received, eos, fault,
                   pubVars, subKey, sdVars, histVars>>

\* Lock() returns once the readers have left; ch := make(chan, 10); append;
\* the deferred Unlock(); return ch
SubscribeRegister(c) ==
    /\ Running
    /\ subPc[c] = "locking"
    /\ muWriter = <<"Subscribe", c>>
    /\ muReaders = {}
    /\ chans' = [chans EXCEPT ![c] =
           [made |-> TRUE, cap |-> QueueCap, buf |-> <<>>, closed |-> FALSE]]
    /\ IF subKey[c] = Wildcard
          THEN /\ allSubscribers' = Append(allSubscribers, c)
               /\ UNCHANGED subscribers
          ELSE /\ subscribers' = [subscribers EXCEPT ![subKey[c]] = Append(@, c)]
               /\ UNCHANGED allSubscribers
    /\ muWriter' = NoOne
    /\ subPc' = [subPc EXCEPT ![c] = "done"]
    /\ UNCHANGED <<funcVars, fwdVars, natsVars,
                   muReaders, wg, shuttingDown, task, received, eos, fault,
                   pubVars, subKey, sdVars, histVars>>

----------------------------------------------------------------------------
\* Publish(event)

\* PublishCheck without the test of the flag: always goes on to deliver
PublishCheckFlagIgnored(p, t) ==
    /\ CanStart
    /\ pubPc[p] = "idle"
    /\ \A q \in PubCalls : q < p => pubPc[q] # "idle"
    /\ pubEvent' = [pubEvent EXCEPT ![p] = [id |-> p, type |-> t]]
    /\ pubRetBefore' = [pubRetBefore EXCEPT ![p] = {q \in PubCalls : pubPc[q] = "done"}]
    /\ pubSentBefore' = [pubSentBefore EXCEPT ![p] =
           {qc \in PubCalls \X SubCalls : task[qc[1]][qc[2]] \in {"sent", "done"}}]
    /\ pubRegBefore' = [pubRegBefore EXCEPT ![p] =
           Range(subscribers[t]) \cup Range(allSubscribers)]
    /\ pubAfterSd' = [pubAfterSd EXCEPT ![p] = SomeShutdownReturned]
    /\ pubPc' = [pubPc EXCEPT ![p] = "rlock"]
    /\ UNCHANGED <<funcVars, fwdVars, natsVars,
                   brokerVars, chanVars, pubTargets, pubIdx, subVars, sdVars,
                   subAfterSd, subPubRet, sdPubRet>>

\* if eb.shuttingDown.Load() { return }
PublishCheck(p, t) ==
    /\ CanStart
    /\ pubPc[p] = "idle"
    /\ \A q \in PubCalls : q < p => pubPc[q] # "idle"
    /\ pubEvent' = [pubEvent EXCEPT ![p] = [id |-> p, type |-> t]]
    /\ pubRetBefore' = [pubRetBefore EXCEPT ![p] = {q \in PubCalls : pubPc[q] = "done"}]
    /\ pubSentBefore' = [pubSentBefore EXCEPT ![p] =
           {qc \in PubCalls \X SubCalls : task[qc[1]][qc[2]] \in {"sent", "done"}}]
    /\ pubRegBefore' = [pubRegBefore EXCEPT ![p] =
           Range(subscribers[t]) \cup Range(allSubscribers)]
    /\ pubAfterSd' = [pubAfterSd EXCEPT ![p] = SomeShutdownReturned]
    /\ pubPc' = [pubPc EXCEPT ![p] = IF shuttingDown THEN "done" ELSE "rlock"]
    /\ UNCHANGED <<funcVars, fwdVars, natsVars,
                   brokerVars, chanVars, pubTargets, pubIdx, subVars, sdVars,
                   subAfterSd, subPubRet, sdPubRet>>

\* eb.mu.RLock(): waits while a writer holds or has asked for the lock
PublishRLock(p) ==
    /\ Running
    /\ pubPc[p] = "rlock"
    /\ muWriter = NoOne
    /\ muReaders' = muReaders \cup {p}
    /\ pubTargets' = [pubTargets EXCEPT ![p] = Targets(pubEvent[p])]
    /\ pubIdx' = [pubIdx EXCEPT ![p] = 1]
    /\ pubPc' = [pubPc EXCEPT ![p] = "loop"]
    /\ UNCHANGED <<funcVars, fwdVars, natsVars,
                   subscribers, allSubscribers, muWriter, wg, shuttingDown,
                   chanVars, pubEvent, subVars, sdVars, histVars>>

\* PublishSpawn sending in the loop itself instead of in a goroutine
PublishSpawnInline(p) ==
    /\ Running
    /\ pubPc[p] = "loop"
    /\ pubIdx[p] <= Len(pubTargets[p])
    /\ LET c == pubTargets[p][pubIdx[p]] IN
          IF chans[c].closed
             THEN /\ fault' = "send on closed channel"
                  /\ UNCHANGED <<chans, task, pubIdx>>
             ELSE /\ Len(chans[c].buf) < chans[c].cap
                  /\ chans' = [chans EXCEPT ![c].buf = Append(@, pubEvent[p])]
                  /\ task' = [task EXCEPT ![p][c] = "done"]
                  /\ pubIdx' = [pubIdx EXCEPT ![p] = @ + 1]
                  /\ UNCHANGED fault
    /\ UNCHANGED <<funcVars, fwdVars, natsVars,
                   brokerVars, received, eos, pubPc, pubEvent, pubTargets,
                   subVars, sdVars, histVars>>

\* one iteration of either loop: eb.wg.Add(1); go func() { ... }()
PublishSpawn(p) ==
    /\ Running
    /\ pubPc[p] = "loop"
    /\ pubIdx[p] <= Len(pubTargets[p])
    /\ wg' = wg + 1
    /\ task' = [task EXCEPT ![p][pubTargets[p][pubIdx[p]]] = "spawned"]
    /\ pubIdx' = [pubIdx EXCEPT ![p] = @ + 1]
    /\ UNCHANGED <<funcVars, fwdVars, natsVars,
                   subscribers, allSubscribers, muWriter, muReaders, shuttingDown,
                   chans, received, eos, fault, pubPc, pubEvent, pubTargets,
                   subVars, sdVars, histVars>>

\* the deferred eb.mu.RUnlock(); return
PublishReturn(p) ==
    /\ Running
    /\ pubPc[p] = "loop"
    /\ pubIdx[p] > Len(pubTargets[p])
    /\ muReaders' = muReaders \ {p}
    /\ pubPc' = [pubPc EXCEPT ![p] = "done"]
    /\ UNCHANGED <<funcVars, fwdVars, natsVars,
                   subscribers, allSubscribers, muWriter, wg, shuttingDown,
                   chanVars, pubEvent, pubTargets, pubIdx, subVars, sdVars, histVars>>

\* TaskSend that never waits: on a full buffer it drops the oldest event
TaskSendDropsOldest(p, c) ==
    /\ Running
    /\ task[p][c] = "spawned"
    /\ IF chans[c].closed
          THEN /\ fault' = "send on closed channel"
               /\ UNCHANGED <<chans, task>>
          ELSE /\ chans' = [chans EXCEPT ![c].buf =
                     IF Len(@) < chans[c].cap THEN Append(@, pubEvent[p])
                                              ELSE Append(Tail(@), pubEvent[p])]
               /\ task' = [task EXCEPT ![p][c] = "sent"]
               /\ UNCHANGED fault
    /\ UNCHANGED <<funcVars, fwdVars, natsVars,
                   brokerVars, received, eos, pubVars, subVars, sdVars, histVars>>

\* TaskSend putting the event at the head of the buffer instead of its tail
TaskSendAtHead(p, c) ==
    /\ Running
    /\ task[p][c] = "spawned"
    /\ IF chans[c].closed
          THEN /\ fault' = "send on closed channel"
               /\ UNCHANGED <<chans, task>>
          ELSE /\ Len(chans[c].buf) < chans[c].cap
               /\ chans' = [chans EXCEPT ![c].buf = <<pubEvent[p]>> \o @]
               /\ task' = [task EXCEPT ![p][c] = "sent"]
               /\ UNCHANGED fault
    /\ UNCHANGED <<funcVars, fwdVars, natsVars,
                   brokerVars, received, eos, pubVars, subVars, sdVars, histVars>>

\* the goroutine's  subs <- event : panics on a closed channel, waits while the
\* buffer is full
TaskSend(p, c) ==
    /\ Running
    /\ task[p][c] = "spawned"
    /\ IF chans[c].closed
          THEN /\ fault' = "send on closed channel"
               /\ UNCHANGED <<chans, task>>
          ELSE /\ Len(chans[c].buf) < chans[c].cap
               /\ chans' = [chans EXCEPT ![c].buf = Append(@, pubEvent[p])]
               /\ task' = [task EXCEPT ![p][c] = "sent"]
               /\ UNCHANGED fault
    /\ UNCHANGED <<funcVars, fwdVars, natsVars,
                   brokerVars, received, eos, pubVars, subVars, sdVars, histVars>>

\* TaskDone taking two off the counter
TaskDoneTwice(p, c) ==
    /\ Running
    /\ task[p][c] = "sent"
    /\ wg' = wg - 2
    /\ task' = [task EXCEPT ![p][c] = "done"]
    /\ UNCHANGED <<funcVars, fwdVars, natsVars,
                   subscribers, allSubscribers, muWriter, muReaders, shuttingDown,
                   chans, received, eos, fault, pubVars, subVars, sdVars, histVars>>

\* the goroutine's deferred eb.wg.Done()
TaskDone(p, c) ==
    /\ Running
    /\ task[p][c] = "sent"
    /\ wg' = wg - 1
    /\ task' = [task EXCEPT ![p][c] = "done"]
    /\ UNCHANGED <<funcVars, fwdVars, natsVars,
                   subscribers, allSubscribers, muWriter, muReaders, shuttingDown,
                   chans, received, eos, fault, pubVars, subVars, sdVars, histVars>>

----------------------------------------------------------------------------
\* the consumer of a channel that Subscribe has returned:  event, ok := <-ch
Receive(c) ==
    /\ Running
    /\ subPc[c] = "done"
    /\ ~eos[c]
    /\ IF chans[c].buf # <<>>
          THEN /\ received' = [received EXCEPT ![c] = Append(@, Head(chans[c].buf))]
               /\ chans' = [chans EXCEPT ![c].buf = Tail(@)]
               /\ UNCHANGED eos
          ELSE /\ chans[c].closed
               /\ eos' = [eos EXCEPT ![c] = TRUE]
               /\ UNCHANGED <<received, chans>>
    /\ UNCHANGED <<funcVars, fwdVars, natsVars,
                   brokerVars, task, fault, pubVars, subVars, sdVars, histVars>>

----------------------------------------------------------------------------
\* SubscribeFunc(eventType, f): ch := eb.Subscribe(eventType), then the
\* goroutine  for event := range ch { f(event) }

\* FuncReceive calling f once more, with nothing received, when the channel is
\* closed
FuncReceiveCallsOnClose(c) ==
    /\ Running
    /\ subPc[c] = "done"
    /\ ~eos[c]
    /\ ~cbPending[c]
    /\ IF chans[c].buf # <<>>
          THEN /\ received' = [received EXCEPT ![c] = Append(@, Head(chans[c].buf))]
               /\ chans' = [chans EXCEPT ![c].buf = Tail(@)]
               /\ cbPending' = [cbPending EXCEPT ![c] = TRUE]
               /\ UNCHANGED eos
          ELSE /\ chans[c].closed
               /\ eos' = [eos EXCEPT ![c] = TRUE]
               /\ cbPending' = [cbPending EXCEPT ![c] = TRUE]
               /\ received' = [received EXCEPT ![c] = Append(@, NoEvent)]
               /\ UNCHANGED chans
    /\ UNCHANGED <<brokerVars, task, fault, pubVars, subVars, sdVars, histVars,
                   invoked, fwdVars, natsVars>>

\* the range clause: receives the next event, or leaves the loop when the
\* channel is closed and empty
FuncReceive(c) ==
    /\ Running
    /\ subPc[c] = "done"
    /\ ~eos[c]
    /\ ~cbPending[c]
    /\ IF chans[c].buf # <<>>
          THEN /\ received' = [received EXCEPT ![c] = Append(@, Head(chans[c].buf))]
               /\ chans' = [chans EXCEPT ![c].buf = Tail(@)]
               /\ cbPending' = [cbPending EXCEPT ![c] = TRUE]
               /\ UNCHANGED eos
          ELSE /\ chans[c].closed
               /\ eos' = [eos EXCEPT ![c] = TRUE]
               /\ UNCHANGED <<received, chans, cbPending>>
    /\ UNCHANGED <<brokerVars, task, fault, pubVars, subVars, sdVars, histVars,
                   invoked, fwdVars, natsVars>>

\* the loop body: f(event)
FuncCall(c) ==
    /\ Running
    /\ cbPending[c]
    /\ invoked' = [invoked EXCEPT ![c] = Append(@, received[c][Len(received[c])])]
    /\ cbPending' = [cbPending EXCEPT ![c] = FALSE]
    /\ UNCHANGED <<brokerVars, chanVars, pubVars, subVars, sdVars, histVars, fwdVars,
                   natsVars>>

----------------------------------------------------------------------------
\* CloudEventForwarder(send): func(e) { send(context.Background(), e) }

\* the events the returned function is called with
FwdEvents == [id : 1..2, type : EventTypes]

\* the returned function is called with event e
ForwarderCall(e) ==
    /\ fwdPc = "idle"
    /\ Len(fwdCalled) < MaxForward
    /\ fwdCalled' = Append(fwdCalled, e)
    /\ fwdPc' = "called"
    /\ UNCHANGED <<brokerVars, chanVars, pubVars, subVars, sdVars, histVars,
                   funcVars, natsVars, fwdSent>>

\* ForwarderSend passing an empty event instead of its argument
ForwarderSendEmptyEvent ==
    /\ fwdPc = "called"
    /\ fwdSent' = Append(fwdSent, [ctx |-> "Background", event |-> NoEvent])
    /\ fwdPc' = "idle"
    /\ UNCHANGED <<brokerVars, chanVars, pubVars, subVars, sdVars, histVars,
                   funcVars, natsVars, fwdCalled>>

\* its body: send(context.Background(), e)
ForwarderSend ==
    /\ fwdPc = "called"
    /\ fwdSent' = Append(fwdSent,
           [ctx |-> "Background", event |-> fwdCalled[Len(fwdCalled)]])
    /\ fwdPc' = "idle"
    /\ UNCHANGED <<brokerVars, chanVars, pubVars, subVars, sdVars, histVars,
                   funcVars, natsVars, fwdCalled>>

----------------------------------------------------------------------------
\* NewNats(logger, url, token, enc)

\* everything but NewNats
restVars == <<brokerVars, chanVars, pubVars, subVars, sdVars, histVars, funcVars,
              fwdVars>>

\* for _, interval := range []int{...} { time.Sleep(interval seconds)
NatsSleep ==
    /\ natsPc = "sleep"
    /\ natsIdx <= Len(Backoff)
    /\ natsSlept' = Append(natsSlept, Backoff[natsIdx])
    /\ natsPc' = "connect"
    /\ UNCHANGED <<restVars, natsIdx, natsErr, natsConn, natsTried>>

\* NatsConnect with a result declared inside the loop: the function's err
\* keeps the error of the attempt before
NatsConnectKeepsError(r) ==
    /\ natsPc = "connect"
    /\ natsTried' = Append(natsTried, r)
    /\ IF r = NoError
          THEN /\ natsConn' = TRUE
               /\ natsPc' = "check"
               /\ UNCHANGED <<natsIdx, natsErr>>
          ELSE /\ natsErr' = r
               /\ natsConn' = FALSE
               /\ natsIdx' = natsIdx + 1
               /\ natsPc' = IF natsIdx = Len(Backoff) THEN "check" ELSE "sleep"
    /\ UNCHANGED <<restVars, natsSlept>>

\* if nc, err = nats.Connect(...); err != nil { continue }; break
NatsConnect(r) ==
    /\ natsPc = "connect"
    /\ natsTried' = Append(natsTried, r)
    /\ natsErr' = r
    /\ natsConn' = (r = NoError)
    /\ IF r = NoError
          THEN /\ natsPc' = "check"
               /\ UNCHANGED natsIdx
          ELSE /\ natsIdx' = natsIdx + 1
               /\ natsPc' = IF natsIdx = Len(Backoff) THEN "check" ELSE "sleep"
    /\ UNCHANGED <<restVars, natsSlept>>

\* after the loop: if err != nil { log.Fatal(err) }
NatsCheck ==
    /\ natsPc = "check"
    /\ natsPc' = IF natsErr # NoError THEN "fatal" ELSE "encode"
    /\ UNCHANGED <<restVars, natsIdx, natsErr, natsConn, natsSlept, natsTried>>

\* c, err := nats.NewEncodedConn(nc, enc); if err != nil { log.Fatal(err) };
\* return New(logger, NewNatsAdapter(c))
NatsEncode(r) ==
    /\ natsPc = "encode"
    /\ natsErr' = r
    /\ natsPc' = IF r # NoError THEN "fatal" ELSE "returned"
    /\ UNCHANGED <<restVars, natsIdx, natsConn, natsSlept, natsTried>>

NextNats ==
    \/ NatsSleep
    \/ \E r \in {NoError} \cup ConnectErrors : NatsConnect(r)
    \/ NatsCheck
    \/ \E r \in {NoError} \cup EncodeErrors : NatsEncode(r)

SpecNats == Init /\ [][NextNats]_vars

----------------------------------------------------------------------------
\* Shutdown()

\* eb.shuttingDown.Store(true)
ShutdownStore(s) ==
    /\ CanStart
    /\ sdPc[s] = "idle"
    /\ \A r \in SdCalls : r < s => sdPc[r] # "idle"
    /\ shuttingDown' = TRUE
    /\ sdPubRet' = [sdPubRet EXCEPT ![s] = {p \in PubCalls : pubPc[p] = "done"}]
    /\ sdPc' = [sdPc EXCEPT ![s] = "wait"]
    /\ UNCHANGED <<funcVars, fwdVars, natsVars,
                   subscribers, allSubscribers, muWriter, muReaders, wg, chanVars,
                   pubVars, subVars, sdTodo, pubRetBefore, pubSentBefore, pubRegBefore, pubAfterSd,
                   subAfterSd, subPubRet>>

\* ShutdownWait returning at once, whatever the counter
ShutdownWaitSkipped(s) ==
    /\ Running
    /\ sdPc[s] = "wait"
    /\ sdPc' = [sdPc EXCEPT ![s] = "lock"]
    /\ UNCHANGED <<funcVars, fwdVars, natsVars,
                   brokerVars, chanVars, pubVars, subVars, sdTodo, histVars>>

\* eb.wg.Wait() returns when the counter is zero
ShutdownWait(s) ==
    /\ Running
    /\ sdPc[s] = "wait"
    /\ wg = 0
    /\ sdPc' = [sdPc EXCEPT ![s] = "lock"]
    /\ UNCHANGED <<funcVars, fwdVars, natsVars,
                   brokerVars, chanVars, pubVars, subVars, sdTodo, histVars>>

\* eb.mu.Lock(): the writer announces itself
ShutdownLock(s) ==
    /\ Running
    /\ sdPc[s] = "lock"
    /\ muWriter = NoOne
    /\ muWriter' = <<"Shutdown", s>>
    /\ sdPc' = [sdPc EXCEPT ![s] = "locking"]
    /\ UNCHANGED <<funcVars, fwdVars, natsVars,
                   subscribers, allSubscribers, muReaders, wg, shuttingDown,
                   chanVars, pubVars, subVars, sdTodo, histVars>>

\* the orders in which `range eb.subscribers` can visit the keys of the map
RECURSIVE KeyOrders(_)
KeyOrders(K) ==
    IF K = {} THEN {<<>>}
    ELSE UNION {{<<k>> \o o : o \in KeyOrders(K \ {k})} : k \in K}

RECURSIVE Flatten(_)
Flatten(o) == IF o = <<>> THEN <<>> ELSE subscribers[Head(o)] \o Flatten(Tail(o))

\* Lock() returns once the readers have left; the channels the two closing
\* loops will visit, in order (the map's keys in any order, then allSubscribers)
ShutdownAcquire(s) ==
    /\ Running
    /\ sdPc[s] = "locking"
    /\ muWriter = <<"Shutdown", s>>
    /\ muReaders = {}
    /\ \E o \in KeyOrders({k \in DOMAIN subscribers : subscribers[k] # <<>>}) :
          sdTodo' = [sdTodo EXCEPT ![s] = Flatten(o) \o allSubscribers]
    /\ sdPc' = [sdPc EXCEPT ![s] = "closing"]
    /\ UNCHANGED <<funcVars, fwdVars, natsVars,
                   brokerVars, chanVars, pubVars, subVars, histVars>>

\* ShutdownClose throwing away what the channel still holds
ShutdownCloseDiscards(s) ==
    /\ Running
    /\ sdPc[s] = "closing"
    /\ sdTodo[s] # <<>>
    /\ LET c == Head(sdTodo[s]) IN
          IF chans[c].closed
             THEN /\ fault' = "close of closed channel"
                  /\ UNCHANGED <<chans, sdTodo>>
             ELSE /\ chans' = [chans EXCEPT ![c].closed = TRUE, ![c].buf = <<>>]
                  /\ sdTodo' = [sdTodo EXCEPT ![s] = Tail(@)]
                  /\ UNCHANGED fault
    /\ UNCHANGED <<funcVars, fwdVars, natsVars,
                   brokerVars, task, received, eos, pubVars, subVars, sdPc,
                   histVars>>

\* close(ch): panics when ch is closed already
ShutdownClose(s) ==
    /\ Running
    /\ sdPc[s] = "closing"
    /\ sdTodo[s] # <<>>
    /\ LET c == Head(sdTodo[s]) IN
          IF chans[c].closed
             THEN /\ fault' = "close of closed channel"
                  /\ UNCHANGED <<chans, sdTodo>>
             ELSE /\ chans' = [chans EXCEPT ![c].closed = TRUE]
                  /\ sdTodo' = [sdTodo EXCEPT ![s] = Tail(@)]
                  /\ UNCHANGED fault
    /\ UNCHANGED <<funcVars, fwdVars, natsVars,
                   brokerVars, task, received, eos, pubVars, subVars, sdPc,
                   histVars>>

\* ShutdownReturn clearing the flag again on its way out
ShutdownReturnClearsFlag(s) ==
    /\ Running
    /\ sdPc[s] = "closing"
    /\ sdTodo[s] = <<>>
    /\ muWriter' = NoOne
    /\ shuttingDown' = FALSE
    /\ sdPc' = [sdPc EXCEPT ![s] = "done"]
    /\ UNCHANGED <<funcVars, fwdVars, natsVars,
                   subscribers, allSubscribers, muReaders, wg,
                   chanVars, pubVars, subVars, sdTodo, histVars>>

\* the deferred eb.mu.Unlock(); return
ShutdownReturn(s) ==
    /\ Running
    /\ sdPc[s] = "closing"
    /\ sdTodo[s] = <<>>
    /\ muWriter' = NoOne
    /\ sdPc' = [sdPc EXCEPT ![s] = "done"]
    /\ UNCHANGED <<funcVars, fwdVars, natsVars,
                   subscribers, allSubscribers, muReaders, wg, shuttingDown,
                   chanVars, pubVars, subVars, sdTodo, histVars>>

----------------------------------------------------------------------------
Next ==
    \/ \E c \in SubCalls, k \in SubKeys : SubscribeCheck(c, k)
    \/ \E c \in SubCalls : SubscribeLock(c)
    \/ \E c \in SubCalls : SubscribeRegister(c)
    \/ \E p \in PubCalls, t \in EventTypes : PublishCheck(p, t)
    \/ \E p \in PubCalls : PublishRLock(p)
    \/ \E p \in PubCalls : PublishSpawn(p)
    \/ \E p \in PubCalls : PublishReturn(p)
    \/ \E p \in PubCalls, c \in SubCalls : TaskSend(p, c)
    \/ \E p \in PubCalls, c \in SubCalls : TaskDone(p, c)
    \/ \E c \in SubCalls : Receive(c)
    \/ \E s \in SdCalls : ShutdownStore(s)
    \/ \E s \in SdCalls : ShutdownWait(s)
    \/ \E s \in SdCalls : ShutdownLock(s)
    \/ \E s \in SdCalls : ShutdownAcquire(s)
    \/ \E s \in SdCalls : ShutdownClose(s)
    \/ \E s \in SdCalls : ShutdownReturn(s)

Spec == Init /\ [][Next]_vars

\* the broker with every subscription made by SubscribeFunc: the consumer of
\* each channel is SubscribeFunc's loop
NextFunc ==
    \/ \E c \in SubCalls, k \in SubKeys : SubscribeCheck(c, k)
    \/ \E c \in SubCalls : SubscribeLock(c)
    \/ \E c \in SubCalls : SubscribeRegister(c)
    \/ \E p \in PubCalls, t \in EventTypes : PublishCheck(p, t)
    \/ \E p \in PubCalls : PublishRLock(p)
    \/ \E p \in PubCalls : PublishSpawn(p)
    \/ \E p \in PubCalls : PublishReturn(p)
    \/ \E p \in PubCalls, c \in SubCalls : TaskSend(p, c)
    \/ \E p \in PubCalls, c \in SubCalls : TaskDone(p, c)
    \/ \E c \in SubCalls : FuncReceive(c)
    \/ \E c \in SubCalls : FuncCall(c)
    \/ \E s \in SdCalls : ShutdownStore(s)
    \/ \E s \in SdCalls : ShutdownWait(s)
    \/ \E s \in SdCalls : ShutdownLock(s)
    \/ \E s \in SdCalls : ShutdownAcquire(s)
    \/ \E s \in SdCalls : ShutdownClose(s)
    \/ \E s \in SdCalls : ShutdownReturn(s)

SpecFunc == Init /\ [][NextFunc]_vars

\* the broker with events whose own type string is "*"
WildTypes == {"a", Wildcard}

NextWild ==
    \/ \E c \in SubCalls, k \in WildTypes : SubscribeCheck(c, k)
    \/ \E c \in SubCalls : SubscribeLock(c)
    \/ \E c \in SubCalls : SubscribeRegister(c)
    \/ \E p \in PubCalls, t \in WildTypes : PublishCheck(p, t)
    \/ \E p \in PubCalls : PublishRLock(p)
    \/ \E p \in PubCalls : PublishSpawn(p)
    \/ \E p \in PubCalls : PublishReturn(p)
    \/ \E p \in PubCalls, c \in SubCalls : TaskSend(p, c)
    \/ \E p \in PubCalls, c \in SubCalls : TaskDone(p, c)
    \/ \E c \in SubCalls : Receive(c)
    \/ \E s \in SdCalls : ShutdownStore(s)
    \/ \E s \in SdCalls : ShutdownWait(s)
    \/ \E s \in SdCalls : ShutdownLock(s)
    \/ \E s \in SdCalls : ShutdownAcquire(s)
    \/ \E s \in SdCalls : ShutdownClose(s)
    \/ \E s \in SdCalls : ShutdownReturn(s)

SpecWild == Init /\ [][NextWild]_vars

----------------------------------------------------------------------------
\* The Broker without wildcard subscription (the other variant): the same
\* code but for three places, which never touch eb.allSubscribers

\* Subscribe: eb.subscribers[eventType] = append(eb.subscribers[eventType], ch)
PlainSubscribeRegister(c) ==
    /\ Running
    /\ subPc[c] = "locking"
    /\ muWriter = <<"Subscribe", c>>
    /\ muReaders = {}
    /\ chans' = [chans EXCEPT ![c] =
           [made |-> TRUE, cap |-> QueueCap, buf |-> <<>>, closed |-> FALSE]]
    /\ subscribers' = [subscribers EXCEPT ![subKey[c]] = Append(@, c)]
    /\ muWriter' = NoOne
    /\ subPc' = [subPc EXCEPT ![c] = "done"]
    /\ UNCHANGED <<funcVars, fwdVars, natsVars,
                   allSubscribers, muReaders, wg, shuttingDown, task, received,
                   eos, fault, pubVars, subKey, sdVars, histVars>>

\* PlainPublishRLock ranging over the channels of every type
PlainPublishRLockAnyType(p) ==
    /\ Running
    /\ pubPc[p] = "rlock"
    /\ muWriter = NoOne
    /\ muReaders' = muReaders \cup {p}
    /\ pubTargets' = [pubTargets EXCEPT ![p] = subscribers["a"] \o subscribers["b"]]
    /\ pubIdx' = [pubIdx EXCEPT ![p] = 1]
    /\ pubPc' = [pubPc EXCEPT ![p] = "loop"]
    /\ UNCHANGED <<funcVars, fwdVars, natsVars,
                   subscribers, allSubscribers, muWriter, wg, shuttingDown,
                   chanVars, pubEvent, subVars, sdVars, histVars>>

\* Publish: eb.mu.RLock(); the one loop ranges over eb.subscribers[event.Type()]
PlainPublishRLock(p) ==
    /\ Running
    /\ pubPc[p] = "rlock"
    /\ muWriter = NoOne
    /\ muReaders' = muReaders \cup {p}
    /\ pubTargets' = [pubTargets EXCEPT ![p] = subscribers[pubEvent[p].type]]
    /\ pubIdx' = [pubIdx EXCEPT ![p] = 1]
    /\ pubPc' = [pubPc EXCEPT ![p] = "loop"]
    /\ UNCHANGED <<funcVars, fwdVars, natsVars,
                   subscribers, allSubscribers, muWriter, wg, shuttingDown,
                   chanVars, pubEvent, subVars, sdVars, histVars>>

\* Shutdown: Lock() returns; the one closing loop visits the map's channels
PlainShutdownAcquire(s) ==
    /\ Running
    /\ sdPc[s] = "locking"
    /\ muWriter = <<"Shutdown", s>>
    /\ muReaders = {}
    /\ \E o \in KeyOrders({k \in DOMAIN subscribers : subscribers[k] # <<>>}) :
          sdTodo' = [sdTodo EXCEPT ![s] = Flatten(o)]
    /\ sdPc' = [sdPc EXCEPT ![s] = "closing"]
    /\ UNCHANGED <<funcVars, fwdVars, natsVars,
                   brokerVars, chanVars, pubVars, subVars, histVars>>

\* the variant's calls never use the key "*"
NextPlain ==
    \/ \E c \in SubCalls, k \in EventTypes : SubscribeCheck(c, k)
    \/ \E c \in SubCalls : SubscribeLock(c)
    \/ \E c \in SubCalls : PlainSubscribeRegister(c)
    \/ \E p \in PubCalls, t \in EventTypes : PublishCheck(p, t)
    \/ \E p \in PubCalls : PlainPublishRLock(p)
    \/ \E p \in PubCalls : PublishSpawn(p)
    \/ \E p \in PubCalls : PublishReturn(p)
    \/ \E p \in PubCalls, c \in SubCalls : TaskSend(p, c)
    \/ \E p \in PubCalls, c \in SubCalls : TaskDone(p, c)
    \/ \E c \in SubCalls : Receive(c)
    \/ \E s \in SdCalls : ShutdownStore(s)
    \/ \E s \in SdCalls : ShutdownWait(s)
    \/ \E s \in SdCalls : ShutdownLock(s)
    \/ \E s \in SdCalls : PlainShutdownAcquire(s)
    \/ \E s \in SdCalls : ShutdownClose(s)
    \/ \E s \in SdCalls : ShutdownReturn(s)

SpecPlain == Init /\ [][NextPlain]_vars

----------------------------------------------------------------------------
\* the forwarder alone
NextFwd ==
    \/ \E e \in FwdEvents : ForwarderCall(e)
    \/ ForwarderSend

SpecFwd == Init /\ [][NextFwd]_vars

\* the same broker, started from a state with a full channel
SpecFull == InitFull /\ [][Next]_vars

----------------------------------------------------------------------------
\* Definitions used to state the properties

\* everything ever enqueued into channel c, in enqueue order
Enqueued(c) == received[c] \o chans[c].buf

\* the number of positions of sequence s holding x
Count(s, x) == Cardinality({i \in DOMAIN s : s[i] = x})

\* in sequence s, every occurrence of y has an occurrence of x before it
PrecedesIn(s, x, y) ==
    \A j \in DOMAIN s : s[j] = y => \E i \in 1..(j - 1) : s[i] = x

\* Publish call p found the flag unset and went on to deliver
Accepted(p) == pubPc[p] = "rlock" \/ pubIdx[p] >= 1

\* Publish call p has run both of its loops
Looped(p) == pubIdx[p] >= 1 /\ pubIdx[p] > Len(pubTargets[p])

\* nothing can take a step: every call made has returned and every goroutine has
\* finished and every consumer has drained its channel, or the process has died
AtRest == ~ENABLED Next

----------------------------------------------------------------------------
\* C1: under every interleaving of Publish, Subscribe and Shutdown no delivery
\* goroutine sends to a channel that Shutdown has closed: the process never
\* panics with "send on closed channel", and a closed channel of the registry
\* has no delivery goroutine still waiting to send to it.
C1_NoSendOnClosedQueue ==
    /\ fault # "send on closed channel"
    /\ \A c \in Registered : chans[c].closed =>
           \A p \in PubCalls : task[p][c] # "spawned"

\* C2: Shutdown is idempotent: with at least one registered channel, a second
\* Shutdown raises no fault (no channel is closed twice) and once both calls
\* have returned the broker is in the state one call leaves: flag set and the
\* channels it had to close closed.
C2_ShutdownIdempotent ==
    /\ fault # "close of closed channel"
    /\ (\A s \in SdCalls : sdPc[s] = "done") =>
           /\ shuttingDown
           /\ \A c \in Range(sdTodo[1]) : chans[c].closed

\* C3: every Publish that found the broker not shutting down delivers exactly
\* one copy of its event to every channel that was registered for the event's
\* type, or as a wildcard, before the call: once nothing is left to run, the
\* consumer of each such channel has received the event exactly once.
C3_EveryMatchingQueueReceives ==
    \A p \in PubCalls : \A c \in pubRegBefore[p] :
        (Accepted(p) /\ AtRest) => Count(received[c], pubEvent[p]) = 1

\* C4: a channel registered under a concrete type holds, and its consumer has
\* received, only events of that type.
C4_TypedQueueHoldsOnlyItsType ==
    \A k \in DOMAIN subscribers : \A i \in DOMAIN subscribers[k] :
        LET c == subscribers[k][i] IN
            \A j \in DOMAIN Enqueued(c) : Enqueued(c)[j].type = k

\* a Publish of another type ran both loops while a typed channel was
\* registered, and that channel has got an event of its own type
C4_Witness ==
    \E c \in SubCalls, p \in PubCalls :
        /\ subKey[c] \in EventTypes
        /\ c \in Registered
        /\ pubPc[p] = "loop" /\ Looped(p)
        /\ pubEvent[p].type # subKey[c]
        /\ Enqueued(c) # <<>>

\* C5 as claimed: when Publish(e1) returned before Publish(e2) was called and
\* both events match one channel, e1 is enqueued into and received from that
\* channel before e2.
C5_PublishOrderIsDeliveryOrder ==
    \A c \in SubCalls : \A p1, p2 \in PubCalls :
        (p1 \in pubRetBefore[p2] /\ task[p1][c] # "none" /\ task[p2][c] # "none") =>
            /\ PrecedesIn(Enqueued(c), pubEvent[p1], pubEvent[p2])
            /\ PrecedesIn(received[c], pubEvent[p1], pubEvent[p2])

\* C5, amended: when the delivery goroutine of e1 for a channel had finished
\* its enqueue before Publish(e2) was called, e1 is enqueued into and received
\* from that channel before e2.
C5_EnqueuedBeforeCallIsDeliveredFirst ==
    \A c \in SubCalls : \A p1, p2 \in PubCalls :
        (<<p1, c>> \in pubSentBefore[p2] /\ task[p2][c] # "none") =>
            /\ PrecedesIn(Enqueued(c), pubEvent[p1], pubEvent[p2])
            /\ PrecedesIn(received[c], pubEvent[p1], pubEvent[p2])

\* both events went through one channel, the first enqueued before the second
\* Publish was called, and the consumer has received both
C5_Witness ==
    \E c \in SubCalls : \E p1, p2 \in PubCalls :
        /\ <<p1, c>> \in pubSentBefore[p2]
        /\ Count(received[c], pubEvent[p1]) = 1
        /\ Count(received[c], pubEvent[p2]) = 1

\* C6: Shutdown waits for the deliveries in flight: when a Shutdown call is
\* closing channels or has returned, every event whose Publish had returned
\* before that Shutdown was called has been enqueued into every channel it
\* matched.
C6_ShutdownWaitsForAcceptedEvents ==
    \A s \in SdCalls : sdPc[s] \in {"closing", "done"} =>
        \A p \in sdPubRet[s] : \A c \in Range(pubTargets[p]) :
            /\ task[p][c] \in {"sent", "done"}
            /\ Count(Enqueued(c), pubEvent[p]) = 1

\* a Shutdown called after a Publish with a matching channel had returned has
\* closed that channel
C6_Witness ==
    \E s \in SdCalls : \E p \in sdPubRet[s] : \E c \in Range(pubTargets[p]) :
        /\ sdPc[s] = "done"
        /\ chans[c].closed

\* C7: when a Shutdown call has returned, every channel of the registry is
\* closed, whatever Subscribe and Publish calls ran concurrently.
C7_RegistryClosedAfterShutdown ==
    SomeShutdownReturned => \A c \in Registered : chans[c].closed

\* C8: once the shutting-down flag is set, no Subscribe call adds a channel to
\* the registry.
C8_NoRegistrationAfterFlag ==
    [][shuttingDown => Registered' = Registered]_vars

\* C9: a Subscribe call made after a Shutdown call has returned returns at
\* once a channel that is closed, holds and yields no event, and is not in the
\* registry.
C9_SubscribeAfterShutdownIsClosed ==
    \A c \in SubCalls : (subAfterSd[c] /\ subPc[c] # "idle") =>
        /\ subPc[c] = "done"
        /\ chans[c].made /\ chans[c].closed
        /\ Enqueued(c) = <<>>
        /\ c \notin Registered

\* Shutdown has closed a registered channel, and the consumer of the channel
\* returned by a Subscribe made after that Shutdown has seen end-of-stream
C9_Witness ==
    \E c \in SubCalls :
        /\ subAfterSd[c]
        /\ eos[c]
        /\ \E d \in Registered : chans[d].closed

\* C10: a Publish call made after a Shutdown call has returned is a no-op: it
\* returns in its first step, leaves the counter, the registry, the channels
\* and the delivery goroutines as they were, and its event reaches no channel.
C10_PublishAfterShutdownIsNoOp ==
    /\ [](\A p \in PubCalls : pubAfterSd[p] =>
            /\ pubPc[p] = "done"
            /\ \A c \in SubCalls :
                  /\ task[p][c] = "none"
                  /\ Count(Enqueued(c), pubEvent[p]) = 0)
    /\ [][\A p \in PubCalls :
            (pubPc[p] = "idle" /\ pubPc'[p] # "idle" /\ SomeShutdownReturned) =>
                /\ pubPc'[p] = "done"
                /\ UNCHANGED <<wg, subscribers, allSubscribers, chans, task,
                               received, fault>>]_vars

\* a Publish made after Shutdown returned, of the type of a channel that the
\* Shutdown closed
C10_Witness ==
    \E p \in PubCalls : \E c \in Registered :
        /\ pubAfterSd[p]
        /\ pubPc[p] = "done"
        /\ chans[c].closed
        /\ subKey[c] \in {pubEvent[p].type, Wildcard}

\* C14: the shutdown protocol does not deadlock: with every consumer and every
\* goroutine running on, every Shutdown call returns, so when nothing is left
\* to run no Shutdown call is still under way.
C14_EveryShutdownReturns ==
    AtRest => \A s \in SdCalls : sdPc[s] \in {"idle", "done"}

\* C16: the pending-delivery counter is incremented only while the
\* shutting-down flag is false.
C16_CounterGrowsOnlyWhileOpen ==
    [][wg' > wg => ~shuttingDown]_vars

\* the lifecycle state of the broker: 0 Open, 1 Draining, 2 Closed
Phase == IF ~shuttingDown THEN 0 ELSE IF SomeShutdownReturned THEN 2 ELSE 1

\* C18: the lifecycle is one-way: the flag starts false and once true stays
\* true, a closed channel is never open again, and the broker only moves from
\* Open to Draining to Closed.
C18_LifecycleIsOneWay ==
    /\ ~shuttingDown
    /\ [][/\ shuttingDown => shuttingDown'
          /\ \A c \in SubCalls : chans[c].closed => chans'[c].closed
          /\ Phase' \in {Phase, Phase + 1}]_vars

\* a Shutdown has returned and closed a channel, and a Subscribe and a Publish
\* have been made after that
C18_Witness ==
    /\ Phase = 2
    /\ \E c \in Registered : chans[c].closed
    /\ \E c \in SubCalls : subAfterSd[c]
    /\ \E p \in PubCalls : pubAfterSd[p]

\* C20: Shutdown does not discard what is enqueued: closing a channel leaves
\* its buffer as it was, a closed channel loses nothing but to its consumer,
\* who receives in queue order, and the consumer sees end-of-stream only once
\* the channel is closed and empty.
C20_ClosedQueueStillDelivers ==
    /\ [](\A c \in SubCalls : eos[c] => chans[c].closed /\ chans[c].buf = <<>>)
    /\ [][\A c \in SubCalls : chans'[c].closed =>
             /\ Enqueued(c)' = Enqueued(c)
             /\ Len(received'[c]) >= Len(received[c])]_vars

\* a Shutdown has returned and has closed a channel that still holds an event
\* its consumer has not received yet
C20_Witness ==
    \E c \in Registered : \E s \in SdCalls :
        /\ sdPc[s] = "done"
        /\ chans[c].closed
        /\ chans[c].buf # <<>>

\* channel c is open and its buffer is full
Full(c) == chans[c].made /\ ~chans[c].closed /\ Len(chans[c].buf) = chans[c].cap

\* the delivery goroutine of p for c waits in its send on the full channel c
Blocked(p, c) == task[p][c] = "spawned" /\ Full(c)

\* sequence s is an initial part of sequence u
IsPrefix(s, u) == Len(s) <= Len(u) /\ SubSeq(u, 1, Len(s)) = s

\* C11: Publish does not block on subscribers: while the process runs, a
\* Publish call inside its loops can always take its next step, whatever the
\* state of the channels; it waits only for the read lock, and only while a
\* writer has the lock, and a writer that has the lock can always go on (once
\* the readers, which can always go on, have left).
C11_PublishNeverWaitsForSubscribers ==
    Running =>
        /\ \A p \in PubCalls :
              /\ pubPc[p] = "loop" => ENABLED (PublishSpawn(p) \/ PublishReturn(p))
              /\ (pubPc[p] = "rlock" /\ muWriter = NoOne) => ENABLED PublishRLock(p)
        /\ \A c \in SubCalls :
              (muWriter = <<"Subscribe", c>> /\ muReaders = {}) =>
                  ENABLED SubscribeRegister(c)
        /\ \A s \in SdCalls :
              (muWriter = <<"Shutdown", s>> /\ muReaders = {}) =>
                  ENABLED (ShutdownAcquire(s) \/ ShutdownClose(s) \/ ShutdownReturn(s))

\* a Publish call has returned although every channel it matched is full and
\* every one of its delivery goroutines is still waiting to send
C11_Witness ==
    \E p \in PubCalls :
        /\ pubPc[p] = "done"
        /\ pubTargets[p] # <<>>
        /\ \A c \in Range(pubTargets[p]) : Blocked(p, c)

\* C12: a slow subscriber does not affect the others: when nothing more can
\* happen, an event of a Publish call that went through its loops, matching
\* channels A and B, with A full and the delivery to A still waiting, is
\* missing from B only if B has no room.
C12_SlowSubscriberDoesNotHoldOthers ==
    AtRest =>
        \A p \in PubCalls : \A a, b \in SubCalls :
            ( /\ a # b
              /\ {a, b} \subseteq Range(pubTargets[p])
              /\ pubPc[p] = "done"
              /\ task[p][a] = "spawned"
              /\ Len(chans[a].buf) = chans[a].cap
              /\ Count(Enqueued(b), pubEvent[p]) = 0 )
            => Len(chans[b].buf) = chans[b].cap

\* C17: while a delivery goroutine waits on a full channel and the consumers
\* receive nothing, no Shutdown call returns and no channel of the registry is
\* closed.
C17_BlockedDeliveryStallsShutdown ==
    [][((\E p \in PubCalls : \E c \in SubCalls : Blocked(p, c)) /\ received' = received)
          => /\ \A s \in SdCalls : sdPc'[s] = "done" => sdPc[s] = "done"
             /\ \A c \in Registered : chans'[c].closed = chans[c].closed]_vars

\* C19: a channel never holds more than 10 events; a delivery goroutine whose
\* channel is full stays waiting while the buffer changes only by the consumer
\* taking its head; and nothing enqueued is ever dropped or overwritten.
C19_QueueBoundedAndSendWaits ==
    /\ [](\A c \in SubCalls : Len(chans[c].buf) <= chans[c].cap /\ chans[c].cap <= 10)
    /\ [][/\ \A p \in PubCalls : \A c \in SubCalls :
                (task[p][c] = "spawned" /\ Len(chans[c].buf) = chans[c].cap) =>
                    /\ task'[p][c] = "spawned"
                    /\ \/ chans'[c].buf = chans[c].buf
                       \/ /\ chans'[c].buf = Tail(chans[c].buf)
                          /\ received'[c] = Append(received[c], Head(chans[c].buf))
          /\ \A c \in SubCalls : IsPrefix(Enqueued(c), Enqueued(c)')]_vars

\* a delivery goroutine waits on a registered channel that holds 10 events,
\* the consumer having received some already
C19_Witness ==
    \E p \in PubCalls : \E c \in Registered :
        /\ Blocked(p, c)
        /\ Len(chans[c].buf) = 10
        /\ received[c] # <<>>

\* C13: for a subscription made with SubscribeFunc, f is called exactly once
\* for each event received from the channel, one call at a time and in queue
\* order; it is never called once the loop has seen the channel closed; the
\* loop leaves only when the channel is closed and empty, and is able to leave
\* whenever it finds the channel so.
C13_CallbackOncePerEventUntilClosed ==
    /\ [](\A c \in SubCalls :
            /\ invoked[c] = IF cbPending[c]
                              THEN SubSeq(received[c], 1, Len(received[c]) - 1)
                              ELSE received[c]
            /\ eos[c] => ~cbPending[c] /\ chans[c].closed /\ chans[c].buf = <<>>
            /\ (/\ Running /\ subPc[c] = "done" /\ ~cbPending[c] /\ ~eos[c]
                /\ chans[c].closed /\ chans[c].buf = <<>>)
                  => ENABLED (FuncReceive(c) /\ eos'[c]))
    /\ [][\A c \in SubCalls :
            /\ eos[c] => invoked'[c] = invoked[c]
            /\ Len(invoked'[c]) <= Len(invoked[c]) + 1]_vars

\* f has been called for two events of one subscription and the loop has then
\* left on the closed channel
C13_Witness ==
    \E c \in Registered :
        /\ eos[c]
        /\ Len(invoked[c]) = 2
        /\ invoked[c][1] # invoked[c][2]

\* C15: the function CloudEventForwarder returns calls send exactly once per
\* call, with a background context and the event it was called with: when it
\* has returned, send has received one call per event, in order, with the
\* same event.
C15_ForwarderSendsEachEventOnce ==
    /\ Len(fwdSent) = Len(fwdCalled) - (IF fwdPc = "called" THEN 1 ELSE 0)
    /\ \A i \in DOMAIN fwdSent :
          fwdSent[i] = [ctx |-> "Background", event |-> fwdCalled[i]]

\* the function has been called with two different events and has returned
\* from both calls
C15_Witness ==
    /\ fwdPc = "idle"
    /\ Len(fwdSent) = 2
    /\ fwdSent[1].event # fwdSent[2].event

\* C21: there is no replay: the event of a Publish call that had returned when
\* a Subscribe call started is never sent to, held by or received from the
\* channel of that Subscribe call, whatever its key.
C21_NoReplay ==
    \A c \in SubCalls : \A p \in subPubRet[c] :
        /\ task[p][c] = "none"
        /\ Count(Enqueued(c), pubEvent[p]) = 0

\* a wildcard channel registered after a Publish call had delivered its event
\* to another channel has received the event of a later Publish call
C21_Witness ==
    \E c \in Registered : \E p \in subPubRet[c] : \E d \in SubCalls :
        /\ subKey[c] = Wildcard
        /\ d # c
        /\ task[p][d] \in {"sent", "done"}
        /\ received[c] # <<>>

\* C22: Subscribe("*") never puts a channel under the key "*" of
\* eb.subscribers, so a wildcard channel is a target of a Publish call at most
\* once, exactly once when it was registered before the call and the call has
\* taken the lock, and holds an event at most once, exactly once when the
\* delivery has sent it; also when the type of the event is "*".
C22_WildcardGetsOneCopy ==
    /\ subscribers[Wildcard] = <<>>
    /\ \A c \in SubCalls : \A p \in PubCalls :
          subKey[c] = Wildcard =>
              /\ Count(pubTargets[p], c) <= 1
              /\ (c \in pubRegBefore[p] /\ pubIdx[p] >= 1) => Count(pubTargets[p], c) = 1
              /\ pubEvent[p] # NoEvent => Count(Enqueued(c), pubEvent[p]) <= 1
              /\ task[p][c] \in {"sent", "done"} => Count(Enqueued(c), pubEvent[p]) = 1

\* a wildcard channel has received an event whose own type is "*"
C22_Witness ==
    \E c \in Registered : \E p \in PubCalls :
        /\ subKey[c] = Wildcard
        /\ pubEvent[p].type = Wildcard
        /\ Count(received[c], pubEvent[p]) = 1

\* C23: a SubscribeFunc call that starts after a Shutdown call has returned
\* gets a closed, empty, unregistered channel at once; its loop receives
\* nothing, never calls f, and leaves on its first step, whatever Publish
\* calls are made.
C23_LateSubscribeFuncNeverCalls ==
    \A c \in SubCalls : (subAfterSd[c] /\ subPc[c] # "idle") =>
        /\ subPc[c] = "done"
        /\ c \notin Registered
        /\ chans[c].closed /\ chans[c].buf = <<>>
        /\ received[c] = <<>> /\ ~cbPending[c] /\ invoked[c] = <<>>
        /\ \A p \in PubCalls : task[p][c] = "none"
        /\ (Running /\ ~eos[c]) => ENABLED (FuncReceive(c) /\ eos'[c])

\* the loop of a SubscribeFunc call made after Shutdown has left, and a Publish
\* call of a matching event, also made after Shutdown, has returned
C23_Witness ==
    \E c \in SubCalls : \E p \in PubCalls :
        /\ subAfterSd[c] /\ eos[c]
        /\ pubAfterSd[p] /\ pubPc[p] = "done"
        /\ subKey[c] \in {pubEvent[p].type, Wildcard}

\* no Subscribe call so far has used the key "*"
NoStar == \A c \in SubCalls : subKey[c] # Wildcard

\* C24: without the key "*" the two variants of the Broker are equivalent:
\* from every state the variant without wildcards reaches, each of its steps
\* is a step of the wildcard variant to the same state (same registry, same
\* channel contents, same closed channels), and each step the wildcard
\* variant can take there without the key "*" is a step of the other variant.
C24_VariantsEquivalentWithoutWildcard ==
    /\ [][Next]_vars
    /\ [](~ENABLED (Next /\ NoStar' /\ ~NextPlain))

\* the variant without wildcards has registered two channels, delivered an
\* event and closed a channel that a consumer has received from
C24_Witness ==
    /\ Cardinality(Registered) = 2
    /\ \E c \in Registered : chans[c].closed /\ received[c] # <<>>
    /\ \E s \in SdCalls : sdPc[s] = "done"

\* all seven attempts of NewNats have failed
AllAttemptsFailed ==
    /\ Len(natsTried) = Len(Backoff)
    /\ \A i \in DOMAIN natsTried : natsTried[i] # NoError

\* the attempts of NewNats follow the backoff list: it sleeps the intervals in
\* order, connects once after each sleep, stops at the first success, and a
\* success leaves err nil and nc set
AttemptsFollowBackoff ==
    /\ IsPrefix(natsSlept, Backoff)
    /\ Len(natsTried) = Len(natsSlept) - (IF natsPc = "connect" THEN 1 ELSE 0)
    /\ \A i \in 1..(Len(natsTried) - 1) : natsTried[i] # NoError
    /\ natsPc \in {"sleep", "connect"} =>
          \A i \in DOMAIN natsTried : natsTried[i] # NoError
    /\ (natsPc \in {"check", "encode"} /\ natsTried[Len(natsTried)] = NoError) =>
          natsErr = NoError /\ natsConn
    /\ natsPc \in {"encode", "returned"} =>
          natsTried[Len(natsTried)] = NoError /\ natsConn

\* C25 as stated: the attempts follow the backoff list, and NewNats ends in a
\* fatal error if and only if all seven attempts failed.
C25_FatalOnlyWhenAllAttemptsFail ==
    /\ AttemptsFollowBackoff
    /\ AllAttemptsFailed => natsPc \in {"check", "fatal"} /\ natsErr # NoError
    /\ natsPc = "fatal" => AllAttemptsFailed

\* C25: the attempts follow the backoff list, and NewNats ends in a fatal
\* error if and only if all seven attempts failed or, after a successful
\* attempt, nats.NewEncodedConn returned an error.
C25_FatalWhenAttemptsOrEncodingFail ==
    /\ AttemptsFollowBackoff
    /\ AllAttemptsFailed => natsPc \in {"check", "fatal"} /\ natsErr # NoError
    /\ natsPc = "fatal" =>
          \/ AllAttemptsFailed
          \/ natsTried[Len(natsTried)] = NoError /\ natsErr \in EncodeErrors
    /\ natsPc = "returned" => natsErr = NoError

\* NewNats has returned after two failed attempts and a third that succeeded
C25_Witness ==
    /\ natsPc = "returned"
    /\ Len(natsTried) = 3
    /\ natsSlept = <<0, 1, 2>>

\* the delivery goroutines that have been spawned and have not finished yet
Pending == {pc \in PubCalls \X SubCalls : task[pc[1]][pc[2]] \in {"spawned", "sent"}}

\* C26: the counter of the WaitGroup is the number of delivery goroutines that
\* have been spawned and have not finished (their send and the deferred Done
\* that follows it); it is never negative; it goes down only by one at a time,
\* when one goroutine finishes, and a finished goroutine stays finished.
C26_CounterCountsPendingDeliveries ==
    /\ [](wg = Cardinality(Pending) /\ wg >= 0)
    /\ [][/\ wg' < wg =>
                /\ wg' = wg - 1
                /\ \E pc \in Pending : /\ Pending' = Pending \ {pc}
                                       /\ task'[pc[1]][pc[2]] = "done"
          /\ \A p \in PubCalls : \A c \in SubCalls :
                task[p][c] = "done" => task'[p][c] = "done"]_vars

\* one delivery goroutine has finished while two others are still counted
C26_Witness ==
    /\ wg = 2
    /\ \E p \in PubCalls : \E c \in SubCalls : task[p][c] = "done"

====
